---- MODULE Spec2Model ----
(***************************************************************************)
(* State-machine model of the drawing surface of App.svelte: the canvas    *)
(* raster, the flood fill, the undo history, the persisted copy in local   *)
(* storage and the image decodes that complete asynchronously.             *)
(*                                                                         *)
(* A pixel is a 4-tuple <<R, G, B, A>> of bytes.  The canvas bitmap is a   *)
(* function from coordinates <<x, y>> to pixels; an ImageData buffer is    *)
(* the flat byte array the code indexes with (y * width + x) * 4.          *)
(* Only fully transparent and fully opaque pixels are modelled: the        *)
(* anti-aliased edge of a stroke is not.  lastX and lastY (lines 8-9) and  *)
(* the pointer position of a stroke feed nothing but the rasteriser, which *)
(* is modelled by the set of pixels a segment covers; they are no state    *)
(* here.  An encoded image (toDataURL) is a record of the size and the     *)
(* pixels; what a decode yields on the canvas is decided by drawImage.     *)
(***************************************************************************)
EXTENDS Integers, Sequences, FiniteSets, TLC

VARIABLES
    mounted,      \* onMount has run: canvas and ctx are set
    width,        \* canvas.width
    height,       \* canvas.height
    raster,       \* the canvas bitmap, [Pix(width, height) -> pixel]
    gco,          \* ctx.globalCompositeOperation
    isDrawing,    \* line 7
    color,        \* line 10, the hex string as the number 0xRRGGBB
    sizeValue,    \* line 13
    erase,        \* line 14
    fillMode,     \* line 15
    history,      \* line 17, sequence of encoded images
    undoEnabled,  \* line 18
    stored,       \* localStorage["canvasData"]: an encoded image or Absent
    pending,      \* images whose src is set and whose onload has not run yet
    lastEvent,    \* trace variable: "init", "mount", "undo" (an entry was popped),
                  \* "undoEmpty", "clear", "fill", or "other" for any other handler
    flood,        \* the locals of fill and floodFill while the while loop of
                  \* floodFill runs (lines 138-168), NoFlood otherwise
    trace         \* trace variable of the specifications that follow one fill
                  \* or one series of undo calls, NoTrace in the others

vars == <<mounted, width, height, raster, gco, isDrawing, color,
          sizeValue, erase, fillMode, history, undoEnabled, stored, pending,
          lastEvent, flood, trace>>

(***************************************************************************)
(* Bounds of the model.                                                    *)
(***************************************************************************)
MaxHist == 1        \* presses and fills are accepted while Len(history) < MaxHist
MaxPending == 1     \* decodes in flight at once
MaxBurst == 2       \* undo calls of one series, in the specification of such series

\* window.innerWidth x window.innerHeight values the window takes
WindowSizes == {<<1, 1>>, <<2, 1>>}
\* raster sizes the flood-fill specification starts from: every raster of
\* the sizes FillSizes, and every raster of two tones of the sizes TwoToneSizes
FillSizes == {<<1, 1>>, <<3, 1>>, <<1, 3>>, <<2, 2>>}
TwoToneSizes == {<<3, 2>>}
\* sizes the window is resized between in the resize specification
ResizeSizes == {<<1, 1>>, <<2, 1>>, <<1, 2>>, <<2, 2>>, <<3, 2>>, <<2, 3>>}

(***************************************************************************)
(* Program constants.                                                      *)
(***************************************************************************)
minSize == 1
maxSize == 100
InitialSize == 5
White == 16777215           \* "#FFFFFF", the initial colour
OpaqueAlpha == 255

Palette == {White, 16711680}        \* values the colour picker delivers
SizeInputs == {InitialSize, 12}     \* values the range input delivers
SizeRequests == {0, InitialSize, 150}   \* values asked of the range input

Absent == [w |-> 0, h |-> 0, px |-> "null"]   \* localStorage.getItem returns null
Undefined == -1             \* a typed-array read outside the buffer

Transparent == <<0, 0, 0, 0>>

\* no fill is under way
NoFlood ==
    [pc |-> "idle", stack |-> <<>>, data |-> <<>>,
     fillColor |-> Transparent, targetColor |-> Transparent]

\* nothing has been traced yet
NoTrace ==
    [seed |-> <<0, 0>>, painted |-> {}, repopped |-> FALSE, again |-> FALSE,
     img |-> Absent, calls |-> 0, done |-> 0, mixed |-> FALSE]

Pix(w, h) == (0 .. w - 1) \X (0 .. h - 1)

Blank(w, h) == [p \in Pix(w, h) |-> Transparent]

\* hexToRgb with the shifts of the red and the green channel exchanged
hexToRgb_Swapped(hex) ==
    <<(hex \div 256) % 256, (hex \div 65536) % 256, hex % 256, 255>>

\* hexToRgb: parseInt(hex.slice(1), 16), then shifts and masks
hexToRgb(hex) ==
    <<(hex \div 65536) % 256, (hex \div 256) % 256, hex % 256, OpaqueAlpha>>

colorsMatch(a, b) ==
    a[1] = b[1] /\ a[2] = b[2] /\ a[3] = b[3] /\ a[4] = b[4]

\* a read of a Uint8ClampedArray: undefined outside the buffer
ByteAt(data, i) == IF i \in DOMAIN data THEN data[i] ELSE Undefined

\* index = (y * canvas.width + x) * 4
getColorAtPixel(data, w, x, y) ==
    LET index == (y * w + x) * 4
    IN  <<ByteAt(data, index), ByteAt(data, index + 1),
          ByteAt(data, index + 2), ByteAt(data, index + 3)>>

\* setColorAtPixel that leaves the alpha byte as it finds it
setColorAtPixel_NoAlpha(data, w, x, y, c) ==
    LET index == (y * w + x) * 4
    IN  [i \in DOMAIN data |->
            IF i = index THEN c[1]
            ELSE IF i = index + 1 THEN c[2]
            ELSE IF i = index + 2 THEN c[3]
            ELSE data[i]]

\* a write to a Uint8ClampedArray outside the buffer is ignored
setColorAtPixel(data, w, x, y, c) ==
    LET index == (y * w + x) * 4
    IN  [i \in DOMAIN data |->
            IF i = index THEN c[1]
            ELSE IF i = index + 1 THEN c[2]
            ELSE IF i = index + 2 THEN c[3]
            ELSE IF i = index + 3 THEN OpaqueAlpha
            ELSE data[i]]

\* ctx.getImageData(0, 0, canvas.width, canvas.height).data
getImageData(r, w, h) ==
    [i \in 0 .. (4 * w * h - 1) |->
        r[<<(i \div 4) % w, (i \div 4) \div w>>][(i % 4) + 1]]

\* ctx.putImageData(imageData, 0, 0) on a canvas of cw x ch: the bytes replace
\* the bitmap where the two overlap, whatever the composite operation is
putImageData(r, cw, ch, data, w, h) ==
    [p \in Pix(cw, ch) |->
        IF p[1] < w /\ p[2] < h
        THEN LET i == (p[2] * w + p[1]) * 4
             IN  <<data[i], data[i + 1], data[i + 2], data[i + 3]>>
        ELSE r[p]]

\* FloodStep with the push of the pixel above left out
FloodStep_NoUp(stack, data, w, h, fillColor, targetColor) ==
    LET cur == stack[Len(stack)]
        curX == cur[1]
        curY == cur[2]
        rest == SubSeq(stack, 1, Len(stack) - 1)
    IN  IF colorsMatch(getColorAtPixel(data, w, curX, curY), targetColor)
        THEN <<rest
                 \o (IF curX > 0 THEN <<(<<curX - 1, curY>>)>> ELSE <<>>)
                 \o (IF curX < w - 1 THEN <<(<<curX + 1, curY>>)>> ELSE <<>>)
                 \o (IF curY < h - 1 THEN <<(<<curX, curY + 1>>)>> ELSE <<>>),
               setColorAtPixel(data, w, curX, curY, fillColor)>>
        ELSE <<rest, data>>

\* FloodStep that tests curX < width where the code tests curX < width - 1
FloodStep_RightEdge(stack, data, w, h, fillColor, targetColor) ==
    LET cur == stack[Len(stack)]
        curX == cur[1]
        curY == cur[2]
        rest == SubSeq(stack, 1, Len(stack) - 1)
    IN  IF colorsMatch(getColorAtPixel(data, w, curX, curY), targetColor)
        THEN <<rest
                 \o (IF curX > 0 THEN <<(<<curX - 1, curY>>)>> ELSE <<>>)
                 \o (IF curX < w THEN <<(<<curX + 1, curY>>)>> ELSE <<>>)
                 \o (IF curY > 0 THEN <<(<<curX, curY - 1>>)>> ELSE <<>>)
                 \o (IF curY < h - 1 THEN <<(<<curX, curY + 1>>)>> ELSE <<>>),
               setColorAtPixel(data, w, curX, curY, fillColor)>>
        ELSE <<rest, data>>

\* FloodStep that pushes the neighbours and never writes the pixel
FloodStep_NoPaint(stack, data, w, h, fillColor, targetColor) ==
    LET cur == stack[Len(stack)]
        curX == cur[1]
        curY == cur[2]
        rest == SubSeq(stack, 1, Len(stack) - 1)
    IN  IF colorsMatch(getColorAtPixel(data, w, curX, curY), targetColor)
        THEN <<rest
                 \o (IF curX > 0 THEN <<(<<curX - 1, curY>>)>> ELSE <<>>)
                 \o (IF curX < w - 1 THEN <<(<<curX + 1, curY>>)>> ELSE <<>>)
                 \o (IF curY > 0 THEN <<(<<curX, curY - 1>>)>> ELSE <<>>)
                 \o (IF curY < h - 1 THEN <<(<<curX, curY + 1>>)>> ELSE <<>>),
               data>>
        ELSE <<rest, data>>

\* one iteration of the while loop of floodFill, on <<stack, data>>
FloodStep(stack, data, w, h, fillColor, targetColor) ==
    LET cur == stack[Len(stack)]
        curX == cur[1]
        curY == cur[2]
        rest == SubSeq(stack, 1, Len(stack) - 1)
    IN  IF colorsMatch(getColorAtPixel(data, w, curX, curY), targetColor)
        THEN <<rest
                 \o (IF curX > 0 THEN <<(<<curX - 1, curY>>)>> ELSE <<>>)
                 \o (IF curX < w - 1 THEN <<(<<curX + 1, curY>>)>> ELSE <<>>)
                 \o (IF curY > 0 THEN <<(<<curX, curY - 1>>)>> ELSE <<>>)
                 \o (IF curY < h - 1 THEN <<(<<curX, curY + 1>>)>> ELSE <<>>),
               setColorAtPixel(data, w, curX, curY, fillColor)>>
        ELSE <<rest, data>>

RECURSIVE FloodLoop(_, _, _, _, _, _)
FloodLoop(stack, data, w, h, fillColor, targetColor) ==
    IF stack = <<>> THEN data
    ELSE LET s == FloodStep(stack, data, w, h, fillColor, targetColor)
         IN  FloodLoop(s[1], s[2], w, h, fillColor, targetColor)

\* floodFill(x, y, fillColor, targetColor, imageData): the buffer afterwards
floodFill(x, y, fillColor, targetColor, data, w, h) ==
    FloodLoop(<<(<<x, y>>)>>, data, w, h, fillColor, targetColor)

\* the pixel a colour-picker value "#RRGGBB" stands for, spelt out
Rgba(c) == IF c = White THEN <<255, 255, 255, 255>> ELSE <<255, 0, 0, 255>>

PixelVals == {Transparent} \cup {Rgba(c) : c \in Palette}

\* canvas.toDataURL(): the encoded image keeps the size and every pixel
toDataURL(r, w, h) == [w |-> w, h |-> h, px |-> r]

Images(sizes) ==
    UNION {{toDataURL(r, d[1], d[2]) : r \in [Pix(d[1], d[2]) -> PixelVals]} :
           d \in sizes}

\* ctx.clearRect(0, 0, canvas.width, canvas.height)
clearRect(w, h) == Blank(w, h)

\* drawImage that paints only where the canvas is already opaque
drawImage_Atop(r, w, h, op, img) ==
    [p \in Pix(w, h) |->
        IF p[1] < img.w /\ p[2] < img.h /\ img.px[p][4] = OpaqueAlpha
           /\ r[p][4] = OpaqueAlpha
        THEN IF op = "destination-out" THEN Transparent ELSE img.px[p]
        ELSE r[p]]

\* ctx.drawImage(image, 0, 0): the image is composited onto the bitmap under
\* the context's composite operation, clipped to the canvas
drawImage(r, w, h, op, img) ==
    [p \in Pix(w, h) |->
        IF p[1] < img.w /\ p[2] < img.h /\ img.px[p][4] = OpaqueAlpha
        THEN IF op = "destination-out" THEN Transparent ELSE img.px[p]
        ELSE r[p]]

Min(a, b) == IF a < b THEN a ELSE b
Max(a, b) == IF a > b THEN a ELSE b

\* beginPath, moveTo, lineTo, stroke under the composite operation op.  Which
\* pixels the round-capped line from (lastX, lastY) to the pointer covers is
\* the rasteriser's business: covered is any set of pixels of the canvas.
stroke(r, w, h, op, style, covered) ==
    [p \in Pix(w, h) |->
        IF p \in covered
        THEN IF op = "destination-out" THEN Transparent ELSE hexToRgb(style)
        ELSE r[p]]

\* what an earlier session left in local storage, when it left something
EarlierSession ==
    toDataURL([p \in Pix(2, 1) |->
                  IF p[1] = 0 THEN Rgba(White) ELSE Transparent], 2, 1)

(***************************************************************************)
(* Initial state: the script's initialisers (lines 4-18) before onMount;   *)
(* local storage holds what an earlier session left there.                 *)
(***************************************************************************)
Init ==
    /\ mounted = FALSE
    /\ width = 0
    /\ height = 0
    /\ raster = Blank(0, 0)
    /\ gco = "source-over"
    /\ isDrawing = FALSE
    /\ color = White
    /\ sizeValue = InitialSize
    /\ erase = FALSE
    /\ fillMode = FALSE
    /\ history = <<>>
    /\ undoEnabled = FALSE
    /\ stored \in {Absent, EarlierSession}
    /\ pending = <<>>
    /\ lastEvent = "init"
    /\ flood = NoFlood
    /\ trace = NoTrace

\* loadCanvasFromLocalStorage: the decodes in flight afterwards
loadCanvasFromLocalStorage(savedData, pend) ==
    IF savedData # Absent
    THEN Append(pend, [kind |-> "load", img |-> savedData])
    ELSE pend

\* onMount
Mount(w, h) ==
    /\ ~mounted
    /\ mounted' = TRUE
    /\ width' = w
    /\ height' = h
    /\ raster' = Blank(w, h)
    /\ pending' = loadCanvasFromLocalStorage(stored, pending)
    /\ lastEvent' = "mount"
    /\ UNCHANGED <<gco, isDrawing, color, sizeValue, erase,
                   fillMode, history, undoEnabled, stored>>

toggleErase ==
    /\ mounted
    /\ erase' = ~erase
    /\ lastEvent' = "other"
    /\ UNCHANGED <<mounted, width, height, raster, gco, isDrawing, color, sizeValue, fillMode, history, undoEnabled,
                   stored, pending>>

toggleFill ==
    /\ mounted
    /\ fillMode' = ~fillMode
    /\ lastEvent' = "other"
    /\ UNCHANGED <<mounted, width, height, raster, gco, isDrawing, color, sizeValue, erase, history, undoEnabled,
                   stored, pending>>

chooseColor(c) ==
    /\ mounted
    /\ color' = c
    /\ lastEvent' = "other"
    /\ UNCHANGED <<mounted, width, height, raster, gco, isDrawing, sizeValue, erase, fillMode, history, undoEnabled,
                   stored, pending>>

\* the range input without its min and max attributes
chooseSize_NoClamp(v) ==
    /\ mounted
    /\ sizeValue' = v
    /\ lastEvent' = "other"
    /\ UNCHANGED <<mounted, width, height, raster, gco, isDrawing, color, erase, fillMode, history, undoEnabled,
                   stored, pending>>

\* the range input, bound to sizeValue: the browser keeps its value in min..max
chooseSize(v) ==
    /\ mounted
    /\ sizeValue' = Max(minSize, Min(maxSize, v))
    /\ lastEvent' = "other"
    /\ UNCHANGED <<mounted, width, height, raster, gco, isDrawing, color, erase, fillMode, history, undoEnabled,
                   stored, pending>>

\* saveHistory that takes no snapshot of an empty canvas
saveHistory_SkipBlank(hist, r, w, h) ==
    IF \A p \in Pix(w, h) : r[p] = Transparent
    THEN hist
    ELSE Append(hist, toDataURL(r, w, h))

\* saveHistory: the history afterwards
saveHistory(hist, r, w, h) == Append(hist, toDataURL(r, w, h))

\* clear that leaves the undo button enabled
clear_KeepsFlag ==
    /\ mounted
    /\ raster' = clearRect(width, height)
    /\ stored' = Absent
    /\ history' = <<>>
    /\ lastEvent' = "clear"
    /\ UNCHANGED <<mounted, width, height, gco, isDrawing, color, sizeValue,
                   erase, fillMode, pending, undoEnabled>>

\* clear
clear ==
    /\ mounted
    /\ raster' = clearRect(width, height)
    /\ stored' = Absent
    /\ history' = <<>>
    /\ undoEnabled' = FALSE
    /\ lastEvent' = "clear"
    /\ UNCHANGED <<mounted, width, height, gco, isDrawing,
                   color, sizeValue, erase, fillMode, pending>>

\* startDrawing, bound to mousedown while fill mode is off
startDrawing ==
    /\ mounted
    /\ ~fillMode
    /\ Len(history) < MaxHist
    /\ history' = saveHistory(history, raster, width, height)
    /\ undoEnabled' = TRUE
    /\ isDrawing' = TRUE
    /\ lastEvent' = "other"
    /\ UNCHANGED <<mounted, width, height, raster, gco, color, sizeValue,
                   erase, fillMode, stored, pending>>

\* draw that does not look at fillMode
draw_IgnoresFillMode(covered) ==
    /\ mounted
    /\ IF ~isDrawing
       THEN UNCHANGED <<gco, raster, stored>>
       ELSE /\ gco' = IF erase THEN "destination-out" ELSE "source-over"
            /\ raster' = stroke(raster, width, height, gco', color, covered)
            /\ stored' = toDataURL(raster', width, height)
    /\ lastEvent' = "other"
    /\ UNCHANGED <<mounted, width, height, isDrawing, color, sizeValue,
                   erase, fillMode, history, undoEnabled, pending>>

\* draw, bound to mousemove: returns at once unless a stroke is under way
\* and fill mode is off
draw(covered) ==
    /\ mounted
    /\ IF ~isDrawing \/ fillMode
       THEN UNCHANGED <<gco, raster, stored>>
       ELSE /\ gco' = IF erase THEN "destination-out" ELSE "source-over"
            /\ raster' = stroke(raster, width, height, gco', color, covered)
            /\ stored' = toDataURL(raster', width, height)
    /\ lastEvent' = "other"
    /\ UNCHANGED <<mounted, width, height, isDrawing, color, sizeValue,
                   erase, fillMode, history, undoEnabled, pending>>

\* ctx.lineWidth = sizeValue (line 57): the width of the segment draw strokes
lineWidth == sizeValue

\* stopDrawing, bound to mouseup, mouseout and blur
stopDrawing ==
    /\ mounted
    /\ isDrawing' = FALSE
    /\ lastEvent' = "other"
    /\ UNCHANGED <<mounted, width, height, raster, gco, color,
                   sizeValue, erase, fillMode, history, undoEnabled, stored,
                   pending>>

\* saveDrawing: the download of canvas.toDataURL("image/png") changes nothing
saveDrawing ==
    /\ mounted
    /\ lastEvent' = "other"
    /\ UNCHANGED <<mounted, width, height, raster, gco, isDrawing, color,
                   sizeValue, erase, fillMode, history, undoEnabled, stored,
                   pending>>

\* resizeCanvas that does not put the old pixels back
resizeCanvas_NoRestore(w, h) ==
    /\ mounted
    /\ <<w, h>> # <<width, height>>
    /\ raster' = Blank(w, h)
    /\ width' = w
    /\ height' = h
    /\ gco' = "source-over"
    /\ lastEvent' = "other"
    /\ UNCHANGED <<mounted, isDrawing, color, sizeValue, erase,
                   fillMode, history, undoEnabled, stored, pending>>

\* resizeCanvas: setting canvas.width or canvas.height resets the bitmap to
\* transparent and the context to its defaults; the old pixels are put back
resizeCanvas(w, h) ==
    /\ mounted
    /\ <<w, h>> # <<width, height>>
    /\ LET imageData == getImageData(raster, width, height)
       IN  raster' = putImageData(Blank(w, h), w, h, imageData, width, height)
    /\ width' = w
    /\ height' = h
    /\ gco' = "source-over"
    /\ lastEvent' = "other"
    /\ UNCHANGED <<mounted, isDrawing, color, sizeValue, erase,
                   fillMode, history, undoEnabled, stored, pending>>

\* undo that, on an empty history, restores a blank image
undo_EmptyRestoresBlank ==
    /\ mounted
    /\ Len(pending) < MaxPending
    /\ IF Len(history) = 0
       THEN /\ pending' = Append(pending,
                   [kind |-> "undo",
                    img |-> toDataURL(Blank(width, height), width, height)])
            /\ lastEvent' = "undoEmpty"
            /\ UNCHANGED <<history, undoEnabled>>
       ELSE /\ pending' = Append(pending,
                   [kind |-> "undo", img |-> history[Len(history)]])
            /\ history' = SubSeq(history, 1, Len(history) - 1)
            /\ undoEnabled' = (Len(history') > 0)
            /\ lastEvent' = "undo"
    /\ UNCHANGED <<mounted, width, height, raster, gco, isDrawing, color,
                   sizeValue, erase, fillMode, stored>>

\* undo: early return on an empty history, else pop and start the decode;
\* accepted while fewer than n decodes are in flight
undoWithin(n) ==
    /\ mounted
    /\ IF Len(history) = 0
       THEN /\ lastEvent' = "undoEmpty"
            /\ UNCHANGED <<history, undoEnabled, pending>>
       ELSE /\ Len(pending) < n
            /\ LET previousState == history[Len(history)]
               IN  pending' = Append(pending,
                                     [kind |-> "undo", img |-> previousState])
            /\ history' = SubSeq(history, 1, Len(history) - 1)
            /\ undoEnabled' = (Len(history') > 0)
            /\ lastEvent' = "undo"
    /\ UNCHANGED <<mounted, width, height, raster, gco, isDrawing, color, sizeValue, erase, fillMode, stored>>

undo == undoWithin(MaxPending)

\* the raster after the body of fill that follows saveHistory
fillRaster(r, w, h, c, startX, startY) ==
    LET fillColor == hexToRgb(c)
        data == getImageData(r, w, h)
        targetColor == getColorAtPixel(data, w, startX, startY)
    IN  IF ~colorsMatch(fillColor, targetColor)
        THEN putImageData(r, w, h,
                 floodFill(startX, startY, fillColor, targetColor, data, w, h),
                 w, h)
        ELSE r

\* fill that takes the snapshot after the repaint
fill_SnapshotAfter(x, y) ==
    /\ mounted
    /\ fillMode
    /\ Len(history) < MaxHist
    /\ raster' = fillRaster(raster, width, height, color, x, y)
    /\ history' = saveHistory(history, raster', width, height)
    /\ undoEnabled' = TRUE
    /\ stored' = IF ~colorsMatch(hexToRgb(color),
                        getColorAtPixel(getImageData(raster, width, height),
                                        width, x, y))
                 THEN toDataURL(raster', width, height)
                 ELSE stored
    /\ lastEvent' = "fill"
    /\ UNCHANGED <<mounted, width, height, gco, isDrawing, color, sizeValue,
                   erase, fillMode, pending>>

\* fill, bound to mousedown while fill mode is on
fill(x, y) ==
    /\ mounted
    /\ fillMode
    /\ Len(history) < MaxHist
    /\ history' = saveHistory(history, raster, width, height)
    /\ undoEnabled' = TRUE
    /\ raster' = fillRaster(raster, width, height, color, x, y)
    /\ stored' = IF ~colorsMatch(hexToRgb(color),
                        getColorAtPixel(getImageData(raster, width, height),
                                        width, x, y))
                 THEN toDataURL(raster', width, height)
                 ELSE stored
    /\ lastEvent' = "fill"
    /\ UNCHANGED <<mounted, width, height, gco, isDrawing,
                   color, sizeValue, erase, fillMode, pending>>

RemoveAt(seq, i) == SubSeq(seq, 1, i - 1) \o SubSeq(seq, i + 1, Len(seq))

\* image.onload of loadCanvasFromLocalStorage (lines 103-105)
loadOnload(i) ==
    /\ mounted
    /\ i \in 1 .. Len(pending)
    /\ pending[i].kind = "load"
    /\ raster' = drawImage(raster, width, height, gco, pending[i].img)
    /\ pending' = RemoveAt(pending, i)
    /\ lastEvent' = "other"
    /\ UNCHANGED <<mounted, width, height, gco, isDrawing,
                   color, sizeValue, erase, fillMode, history, undoEnabled,
                   stored>>

\* image.onload of undo (lines 126-130)
undoOnload(i) ==
    /\ mounted
    /\ i \in 1 .. Len(pending)
    /\ pending[i].kind = "undo"
    /\ raster' = drawImage(clearRect(width, height), width, height, gco,
                           pending[i].img)
    /\ stored' = toDataURL(raster', width, height)
    /\ pending' = RemoveAt(pending, i)
    /\ lastEvent' = "other"
    /\ UNCHANGED <<mounted, width, height, gco, isDrawing,
                   color, sizeValue, erase, fillMode, history, undoEnabled>>

Pointer == (0 .. width - 1) \X (0 .. height - 1)

\* the step is none of a traced fill or series of undo calls
Quiet == UNCHANGED <<flood, trace>>

(***************************************************************************)
(* Spec: a session in which the colour and the brush size stay as they    *)
(* start (SpecFill has the colour picker, SpecSize the range input).       *)
(* Every other event may arrive in any order once mounted.                 *)
(***************************************************************************)
Next ==
    \/ (\E d \in WindowSizes : Mount(d[1], d[2])) /\ Quiet
    \/ toggleErase /\ Quiet
    \/ toggleFill /\ Quiet
    \/ clear /\ Quiet
    \/ startDrawing /\ Quiet
    \/ (\E covered \in SUBSET Pix(width, height) : draw(covered)) /\ Quiet
    \/ stopDrawing /\ Quiet
    \/ saveDrawing /\ Quiet
    \/ (\E d \in WindowSizes : resizeCanvas(d[1], d[2])) /\ Quiet
    \/ undo /\ Quiet
    \/ (\E e \in Pointer : fill(e[1], e[2])) /\ Quiet
    \/ (\E i \in 1 .. MaxPending : loadOnload(i)) /\ Quiet
    \/ (\E i \in 1 .. MaxPending : undoOnload(i)) /\ Quiet

Spec == Init /\ [][Next]_vars

(***************************************************************************)
(* SpecFill: fill mode is on over a drawing restored from local storage;   *)
(* the user picks colours and clicks to fill.  A fill tells the seed's     *)
(* colour from every other colour and nothing more, so two tones give      *)
(* every shape of region on the larger raster.                             *)
(***************************************************************************)
InitFill ==
    /\ mounted = TRUE
    /\ \/ \E d \in FillSizes :
             /\ width = d[1]
             /\ height = d[2]
             /\ raster \in [Pix(d[1], d[2]) -> PixelVals]
       \/ \E d \in TwoToneSizes :
             /\ width = d[1]
             /\ height = d[2]
             /\ raster \in [Pix(d[1], d[2]) -> {Transparent, Rgba(White)}]
    /\ gco = "source-over"
    /\ isDrawing = FALSE
    /\ color = White
    /\ sizeValue = InitialSize
    /\ erase = FALSE
    /\ fillMode = TRUE
    /\ history = <<>>
    /\ undoEnabled = FALSE
    /\ stored = toDataURL(raster, width, height)
    /\ pending = <<>>
    /\ lastEvent = "other"
    /\ flood = NoFlood
    /\ trace = NoTrace

NextFill ==
    \/ (\E c \in Palette : chooseColor(c)) /\ Quiet
    \/ (\E e \in Pointer : fill(e[1], e[2])) /\ Quiet

SpecFill == InitFill /\ [][NextFill]_vars

(***************************************************************************)
(* SpecLoad: start-up alone, over every image local storage may hold: the  *)
(* mount and the completion of the decode it starts.                       *)
(***************************************************************************)
InitLoad ==
    /\ mounted = FALSE
    /\ width = 0
    /\ height = 0
    /\ raster = Blank(0, 0)
    /\ gco = "source-over"
    /\ isDrawing = FALSE
    /\ color = White
    /\ sizeValue = InitialSize
    /\ erase = FALSE
    /\ fillMode = FALSE
    /\ history = <<>>
    /\ undoEnabled = FALSE
    /\ stored \in {Absent} \cup Images(FillSizes)
    /\ pending = <<>>
    /\ lastEvent = "init"
    /\ flood = NoFlood
    /\ trace = NoTrace

NextLoad ==
    \/ (\E d \in FillSizes : Mount(d[1], d[2])) /\ Quiet
    \/ (\E i \in 1 .. MaxPending : loadOnload(i)) /\ Quiet

SpecLoad == InitLoad /\ [][NextLoad]_vars

(***************************************************************************)
(* The fill of lines 134-149 in steps: FloodBegin is fill up to the first  *)
(* test of the while loop of floodFill, FloodIter one iteration of the     *)
(* loop, FloodEnd what follows the loop.  No other handler runs while the  *)
(* loop does.  trace records the seed, the coordinates repainted so far,   *)
(* whether a repainted coordinate was popped again and whether one was     *)
(* repainted again.                                                        *)
(***************************************************************************)
FloodBegin(x, y) ==
    /\ mounted
    /\ fillMode
    /\ flood.pc = "idle"
    /\ Len(history) < MaxHist
    /\ history' = saveHistory(history, raster, width, height)
    /\ undoEnabled' = TRUE
    /\ LET fillColor == hexToRgb(color)
           data == getImageData(raster, width, height)
           targetColor == getColorAtPixel(data, width, x, y)
       IN  flood' = IF ~colorsMatch(fillColor, targetColor)
                    THEN [pc |-> "loop", stack |-> <<(<<x, y>>)>>,
                          data |-> data, fillColor |-> fillColor,
                          targetColor |-> targetColor]
                    ELSE flood
    /\ trace' = [trace EXCEPT !.seed = <<x, y>>, !.painted = {},
                              !.repopped = FALSE, !.again = FALSE]
    /\ lastEvent' = "fill"
    /\ UNCHANGED <<mounted, width, height, raster, gco, isDrawing, color,
                   sizeValue, erase, fillMode, stored, pending>>

FloodIter ==
    /\ flood.pc = "loop"
    /\ flood.stack # <<>>
    /\ LET cur == flood.stack[Len(flood.stack)]
           matched == colorsMatch(getColorAtPixel(flood.data, width,
                                                  cur[1], cur[2]),
                                  flood.targetColor)
           s == FloodStep(flood.stack, flood.data, width, height,
                          flood.fillColor, flood.targetColor)
       IN  /\ flood' = [flood EXCEPT !.stack = s[1], !.data = s[2]]
           /\ trace' = [trace EXCEPT
                  !.painted = IF matched THEN @ \cup {cur} ELSE @,
                  !.repopped = @ \/ cur \in trace.painted,
                  !.again = @ \/ (matched /\ cur \in trace.painted)]
    /\ UNCHANGED <<mounted, width, height, raster, gco, isDrawing, color,
                   sizeValue, erase, fillMode, history, undoEnabled, stored,
                   pending, lastEvent>>

FloodEnd ==
    /\ flood.pc = "loop"
    /\ flood.stack = <<>>
    /\ raster' = putImageData(raster, width, height, flood.data,
                              width, height)
    /\ stored' = toDataURL(raster', width, height)
    /\ flood' = NoFlood
    /\ UNCHANGED <<mounted, width, height, gco, isDrawing, color, sizeValue,
                   erase, fillMode, history, undoEnabled, pending, lastEvent,
                   trace>>

(***************************************************************************)
(* SpecFlood: SpecFill with the fill taken in steps.  The loop runs to its *)
(* end without yielding, hence the fairness of its steps.                  *)
(***************************************************************************)
NextFlood ==
    \/ flood.pc = "idle" /\ (\E c \in Palette : chooseColor(c)) /\ Quiet
    \/ \E e \in Pointer : FloodBegin(e[1], e[2])
    \/ FloodIter
    \/ FloodEnd

SpecFlood ==
    InitFill /\ [][NextFlood]_vars /\ WF_vars(FloodIter) /\ WF_vars(FloodEnd)

(***************************************************************************)
(* SpecProbe: SpecFlood with clicks delivered at x = canvas.width as well, *)
(* one past the right edge.                                                *)
(***************************************************************************)
EdgePointer == (0 .. width) \X (0 .. height - 1)

NextProbe ==
    \/ flood.pc = "idle" /\ (\E c \in Palette : chooseColor(c)) /\ Quiet
    \/ \E e \in EdgePointer : FloodBegin(e[1], e[2])
    \/ FloodIter
    \/ FloodEnd

SpecProbe == InitFill /\ [][NextProbe]_vars

(***************************************************************************)
(* SpecSize: strokes of a session in which the range input is asked for    *)
(* sizes below its minimum and above its maximum.                          *)
(***************************************************************************)
NextSize ==
    \/ (\E d \in WindowSizes : Mount(d[1], d[2])) /\ Quiet
    \/ (\E i \in 1 .. MaxPending : loadOnload(i)) /\ Quiet
    \/ (\E v \in SizeInputs \cup SizeRequests : chooseSize(v)) /\ Quiet
    \/ toggleErase /\ Quiet
    \/ startDrawing /\ Quiet
    \/ (\E covered \in SUBSET Pix(width, height) : draw(covered)) /\ Quiet
    \/ stopDrawing /\ Quiet

SpecSize == Init /\ [][NextSize]_vars

(***************************************************************************)
(* SpecUndo: after MaxBurst strokes on a canvas two pixels wide, the user  *)
(* clicks undo; the decodes complete in any order.  trace records the      *)
(* snapshot the latest call popped, the calls that popped, the decodes     *)
(* completed, and whether a call came after a completion.                  *)
(***************************************************************************)
TwoToneImages(w, h) ==
    {toDataURL(r, w, h) : r \in [Pix(w, h) -> {Transparent, Rgba(White)}]}

InitUndo ==
    /\ mounted = TRUE
    /\ width = 2
    /\ height = 1
    /\ raster \in [Pix(2, 1) -> {Transparent, Rgba(White)}]
    /\ gco = "source-over"
    /\ isDrawing = FALSE
    /\ color = White
    /\ sizeValue = InitialSize
    /\ erase = FALSE
    /\ fillMode = FALSE
    /\ history \in [1 .. MaxBurst -> TwoToneImages(2, 1)]
    /\ undoEnabled = TRUE
    /\ stored = toDataURL(raster, width, height)
    /\ pending = <<>>
    /\ lastEvent = "other"
    /\ flood = NoFlood
    /\ trace = NoTrace

undoCall ==
    /\ undoWithin(MaxBurst)
    /\ trace' = IF history = <<>>
                THEN trace
                ELSE [trace EXCEPT !.img = history[Len(history)],
                                   !.calls = @ + 1,
                                   !.mixed = @ \/ trace.done > 0]
    /\ UNCHANGED flood

undoDone(i) ==
    /\ undoOnload(i)
    /\ trace' = [trace EXCEPT !.done = @ + 1]
    /\ UNCHANGED flood

NextUndo ==
    \/ undoCall
    \/ \E i \in 1 .. MaxBurst : undoDone(i)

SpecUndo == InitUndo /\ [][NextUndo]_vars

(***************************************************************************)
(* SpecResize: the window is resized over a drawing, between presses.  The *)
(* drawing is the one the last stroke or fill saved to local storage.      *)
(***************************************************************************)
InitResize ==
    /\ mounted = TRUE
    /\ \E d \in ResizeSizes :
          /\ width = d[1]
          /\ height = d[2]
          /\ raster \in [Pix(d[1], d[2]) -> {Transparent, Rgba(White)}]
    /\ gco = "source-over"
    /\ isDrawing = FALSE
    /\ color = White
    /\ sizeValue = InitialSize
    /\ erase = FALSE
    /\ fillMode = FALSE
    /\ history = <<>>
    /\ undoEnabled = FALSE
    /\ stored = toDataURL(raster, width, height)
    /\ pending = <<>>
    /\ lastEvent = "other"
    /\ flood = NoFlood
    /\ trace = NoTrace

NextResize ==
    \/ (\E d \in ResizeSizes : resizeCanvas(d[1], d[2])) /\ Quiet
    \/ startDrawing /\ Quiet
    \/ stopDrawing /\ Quiet

SpecResize == InitResize /\ [][NextResize]_vars

(***************************************************************************)
(* Flood fill: C1, C2 (checked under SpecFill).                            *)
(***************************************************************************)
Adjacent(p, q) ==
    \/ p[1] = q[1] /\ (p[2] = q[2] + 1 \/ q[2] = p[2] + 1)
    \/ p[2] = q[2] /\ (p[1] = q[1] + 1 \/ q[1] = p[1] + 1)

RECURSIVE Grow(_, _, _, _)
Grow(S, r, w, h) ==
    LET T == S \cup {q \in Pix(w, h) :
                        \E p \in S : Adjacent(p, q) /\ r[q] = r[p]}
    IN  IF T = S THEN S ELSE Grow(T, r, w, h)

\* the 4-connected component of seed among the pixels of seed's colour
Region(r, w, h, seed) == Grow({seed}, r, w, h)

\* C1: a fill whose colour differs from the seed pixel's colour repaints
\* exactly the 4-connected component of the seed among the pixels of the
\* seed's colour, each to the fill colour's R, G, B with alpha 255, and
\* leaves every other pixel as it was.
C1_FillRepaintsRegion ==
    [][\A e \in Pointer :
          (fill(e[1], e[2]) /\ raster[e] # Rgba(color)) =>
             \A p \in Pix(width, height) :
                raster'[p] = IF p \in Region(raster, width, height, e)
                             THEN <<Rgba(color)[1], Rgba(color)[2],
                                    Rgba(color)[3], 255>>
                             ELSE raster[p]]_vars

\* a fill has repainted several pixels and left alone a pixel of the same
\* old colour that is not connected to them
C1_Witness ==
    /\ history # <<>>
    /\ LET old == history[Len(history)].px
       IN  /\ Cardinality({p \in Pix(width, height) : raster[p] # old[p]}) >= 2
           /\ \E p, q \in Pix(width, height) :
                 /\ old[p] = old[q]
                 /\ raster[p] # old[p]
                 /\ raster[q] = old[q]

\* C2: a fill whose seed pixel already has the fill colour in all four
\* components leaves every pixel of the raster unchanged.
C2_FillSameColorNoOp ==
    [][\A e \in Pointer :
          (fill(e[1], e[2]) /\ raster[e] = Rgba(color)) =>
             raster' = raster]_vars

\* a fill has run on a raster of two colours and changed no pixel
C2_Witness ==
    /\ history # <<>>
    /\ history[Len(history)].px = raster
    /\ \E p, q \in Pix(width, height) : raster[p] # raster[q]

(***************************************************************************)
(* History, persistence and decodes: C3 - C9 (checked under Spec).         *)
(***************************************************************************)
IsBlank(r) == \A p \in DOMAIN r : r[p] = Transparent

PressStep == startDrawing \/ \E e \in Pointer : fill(e[1], e[2])

RenderStep ==
    \/ isDrawing /\ ~fillMode
          /\ \E covered \in SUBSET Pix(width, height) : draw(covered)
    \/ \E e \in Pointer : fill(e[1], e[2])

\* C3: when undo is called and its decode completes with no other event in
\* between, on a canvas that still has the snapshot's size, the raster
\* equals the raster the popped snapshot was taken of, whatever composite
\* mode the last stroke segment left on the context.
C3_UndoRestoresSnapshot ==
    [][\A i \in 1 .. MaxPending :
          (/\ lastEvent = "undo"
           /\ i = Len(pending)
           /\ width = pending[i].img.w
           /\ height = pending[i].img.h
           /\ undoOnload(i)) => raster' = pending[i].img.px]_vars

\* C4: the entry a press appends encodes the raster as it was before the
\* press: whenever the history grows, the old entries stay and the new last
\* entry is the encoding of the raster of the state before the step.
C4_SnapshotBeforeOperation ==
    [][Len(history') > Len(history) =>
          history' = Append(history, toDataURL(raster, width, height))]_vars

\* a fill has repainted the raster and the entry it pushed differs from it
C4_Witness ==
    /\ lastEvent = "fill"
    /\ history # <<>>
    /\ history[Len(history)].px # raster
    /\ ~IsBlank(raster)
    /\ IsBlank(history[Len(history)].px)

C6_UndoEmptyNoOp ==
    [][(undo /\ history = <<>>) =>
          UNCHANGED <<raster, history, undoEnabled, stored, pending>>]_vars

\* undo has been called on an empty history over a drawing
C6_Witness ==
    /\ lastEvent = "undoEmpty"
    /\ ~IsBlank(raster)
    /\ stored # Absent

\* C7: the undo-enabled flag is true exactly when the history is non-empty.
C7_UndoEnabledIffHistory == undoEnabled <=> (history # <<>>)

\* a stroke is under way over its snapshot, and the flag is set
C7_Witness ==
    /\ undoEnabled
    /\ history # <<>>
    /\ isDrawing
    /\ history[Len(history)].px # raster

\* C8: after every handler or decode completion that changes the raster,
\* the persisted image is the current raster; only after a clear may it
\* differ, and then it is absent (and the raster blank).
C8_StoredIsRaster ==
    [][(mounted /\ raster' # raster) =>
          \/ stored' = toDataURL(raster', width', height')
          \/ stored' = Absent /\ IsBlank(raster')]_vars

\* C9: after clear the raster is blank, the history empty and the persisted
\* key absent, and no event other than a stroke segment or a fill repaints
\* the raster or re-creates the key.
C9_ClearStays ==
    [][lastEvent = "clear" =>
          /\ IsBlank(raster) /\ history = <<>> /\ stored = Absent
          /\ ~RenderStep => (IsBlank(raster') /\ stored' = Absent)]_vars

(***************************************************************************)
(* Start-up: C10 (checked under SpecLoad).                                 *)
(***************************************************************************)
\* C10: once the decode that the mount started has completed on a canvas of
\* the saved image's size, the raster is the saved raster pixel for pixel;
\* with nothing persisted the raster is blank and no decode is in flight.
C10_SaveLoadRoundTrip ==
    mounted =>
       /\ stored = Absent => (raster = Blank(width, height) /\ pending = <<>>)
       /\ (/\ stored # Absent
           /\ pending = <<>>
           /\ width = stored.w
           /\ height = stored.h) => raster = stored.px

\* a drawing with painted and transparent pixels has been restored
C10_Witness ==
    /\ mounted
    /\ stored # Absent
    /\ pending = <<>>
    /\ width = stored.w
    /\ height = stored.h
    /\ raster = stored.px
    /\ \E p, q \in Pix(width, height) :
          raster[p] = Transparent /\ raster[q] # Transparent

(***************************************************************************)
(* Resize: C11 (checked under SpecResize).                                 *)
(***************************************************************************)
\* C11: a resize from (w, h) to (w2, h2) gives a raster of exactly the new
\* size in which every pixel inside both the old and the new bounds keeps its
\* value at its coordinates and every pixel outside the old bounds is
\* transparent; what lay outside the new bounds is gone; the history is not
\* changed.
C11_ResizeKeepsOverlap ==
    [][\A d \in ResizeSizes :
          resizeCanvas(d[1], d[2]) =>
             /\ DOMAIN raster' = Pix(d[1], d[2])
             /\ \A p \in Pix(d[1], d[2]) :
                   raster'[p] = IF p[1] < width /\ p[2] < height
                                THEN raster[p]
                                ELSE Transparent
             /\ history' = history]_vars

\* after a press, the window got narrower and taller than the saved drawing:
\* a painted pixel is kept in place, a painted pixel of the saved drawing lies
\* outside the canvas, and the exposed rows are transparent
C11_Witness ==
    /\ history # <<>>
    /\ width < stored.w
    /\ height > stored.h
    /\ \E p \in Pix(width, stored.h) :
          raster[p] # Transparent /\ raster[p] = stored.px[p]
    /\ \E q \in Pix(stored.w, stored.h) :
          q[1] >= width /\ stored.px[q] # Transparent
    /\ \A p \in Pix(width, height) : p[2] >= stored.h => raster[p] = Transparent

(***************************************************************************)
(* Alpha of written pixels: C12 (checked under Spec).                      *)
(***************************************************************************)
\* a mousemove that renders a segment over the pixels covered
StrokeRendered(covered) == isDrawing /\ ~fillMode /\ draw(covered)

\* C12 as claimed: every pixel written by a fill or by a stroke segment, in
\* paint mode or in erase mode, has alpha 255 afterwards (a pixel counts as
\* written when the step changes it).
C12_WrittenPixelsOpaque ==
    [][/\ \A covered \in SUBSET Pix(width, height) :
             StrokeRendered(covered) =>
                \A p \in covered :
                   raster'[p] # raster[p] => raster'[p][4] = 255
       /\ \A e \in Pointer :
             fill(e[1], e[2]) =>
                \A p \in Pix(width, height) :
                   raster'[p] # raster[p] => raster'[p][4] = 255]_vars

\* C12 as amended: every pixel a fill repaints and every pixel a paint-mode
\* segment covers has alpha 255 afterwards; every pixel an erase-mode segment
\* covers has alpha 0 afterwards.
C12_WrittenAlphaByMode ==
    [][/\ (isDrawing /\ ~fillMode) =>
             \A covered \in SUBSET Pix(width, height) :
                StrokeRendered(covered) =>
                   \A p \in covered :
                      raster'[p][4] = IF erase THEN 0 ELSE 255
       /\ fillMode =>
             \A e \in Pointer :
                fill(e[1], e[2]) =>
                   \A p \in Pix(width, height) :
                      raster'[p] # raster[p] => raster'[p][4] = 255]_vars

\* an erase-mode segment has made a painted pixel transparent next to a
\* pixel that stays painted
C12_Witness ==
    /\ isDrawing
    /\ gco = "destination-out"
    /\ history # <<>>
    /\ history[Len(history)].w = width
    /\ history[Len(history)].h = height
    /\ \E p, q \in Pix(width, height) :
          /\ history[Len(history)].px[p][4] = 255
          /\ raster[p][4] = 0
          /\ raster[q][4] = 255

(***************************************************************************)
(* The loop of floodFill: C13, C18 (checked under SpecFlood), C14 (checked *)
(* under SpecProbe).                                                       *)
(***************************************************************************)
\* C13: a fill from a seed inside the raster with a fill colour other than
\* the seed's colour repaints no coordinate twice, and its loop, once
\* entered, comes to its end.
C13_FloodTerminates ==
    /\ [](~trace.again)
    /\ (flood.pc = "loop") ~> (flood.pc = "idle")

\* a fill has ended after repainting three pixels or more, and a coordinate
\* popped again after its repaint was discarded
C13_Witness ==
    /\ flood.pc = "idle"
    /\ lastEvent = "fill"
    /\ Cardinality(trace.painted) >= 3
    /\ trace.repopped
    /\ ~trace.again
    /\ \A p \in trace.painted : raster[p] = Rgba(color)

\* C18: while a fill from a seed inside the raster runs, every coordinate on
\* the stack lies inside the raster, also when the width or the height is 1,
\* and its linear index addresses the four bytes of that very pixel.
C18_StackInBounds ==
    flood.pc = "loop" =>
       \A k \in 1 .. Len(flood.stack) :
          LET x == flood.stack[k][1]
              y == flood.stack[k][2]
              index == (y * width + x) * 4
          IN  /\ 0 <= x /\ x < width
              /\ 0 <= y /\ y < height
              /\ index \in DOMAIN flood.data
              /\ index + 3 \in DOMAIN flood.data
              /\ (index \div 4) % width = x
              /\ (index \div 4) \div width = y

\* on a raster one pixel wide, the loop holds both neighbours of the seed
C18_Witness ==
    /\ flood.pc = "loop"
    /\ width = 1
    /\ height = 3
    /\ trace.seed = <<0, 1>>
    /\ Len(flood.stack) = 2

\* C14: a pixel access with coordinates outside the raster reads no byte of
\* the buffer and changes none: when the loop pops a coordinate outside the
\* raster, the read yields no pixel of the raster and the buffer stays as it
\* is.
C14_OutsideAccessRejected ==
    [][(/\ FloodIter
        /\ flood.stack[Len(flood.stack)] \notin Pix(width, height)) =>
          /\ getColorAtPixel(flood.data, width,
                             flood.stack[Len(flood.stack)][1],
                             flood.stack[Len(flood.stack)][2])
                = <<Undefined, Undefined, Undefined, Undefined>>
          /\ flood'.data = flood.data]_vars

(***************************************************************************)
(* Pointer protocol: C15 (checked under Spec).                             *)
(***************************************************************************)
\* C15: a press with fill mode off begins a stroke and paints nothing; a
\* press with fill mode on fills and begins no stroke; only a stroke-starting
\* press opens a stroke and a release, leave or focus loss closes it; a move
\* while no stroke is open or while fill mode is on leaves the raster, the
\* history and the persisted image unchanged (last conjunct: the step leaves
\* them unchanged, or a stroke is open with fill mode off, or the step is no
\* move).
C15_PointerProtocol ==
    [][/\ startDrawing => (~fillMode /\ isDrawing' /\ raster' = raster)
       /\ \A e \in Pointer :
             fill(e[1], e[2]) => (fillMode /\ isDrawing' = isDrawing)
       /\ (isDrawing' /\ ~isDrawing) => startDrawing
       /\ stopDrawing => ~isDrawing'
       /\ \/ UNCHANGED <<raster, history, stored>>
          \/ isDrawing /\ ~fillMode
          \/ \A covered \in SUBSET Pix(width, height) : ~draw(covered)]_vars

\* a stroke was rendered in erase mode and released: the raster differs from
\* the snapshot of the press, and no stroke is open
C15_Witness ==
    /\ ~isDrawing
    /\ ~fillMode
    /\ gco = "destination-out"
    /\ history # <<>>
    /\ history[Len(history)].w = width
    /\ history[Len(history)].h = height
    /\ history[Len(history)].px # raster
    /\ stored = toDataURL(raster, width, height)

(***************************************************************************)
(* Brush size: C16 (checked under SpecSize).                               *)
(***************************************************************************)
\* C16: whenever a stroke segment is rendered, the line width it is stroked
\* with lies in minSize .. maxSize; a request for 0 or for 150 is never the
\* width of a segment.
C16_LineWidthInRange ==
    [][\A covered \in SUBSET Pix(width, height) :
          StrokeRendered(covered) =>
             /\ minSize <= lineWidth
             /\ lineWidth <= maxSize
             /\ lineWidth \notin {0, 150}]_vars

\* after a request for 150 a stroke is under way at the maximum width, and
\* it has painted
C16_Witness ==
    /\ sizeValue = maxSize
    /\ isDrawing
    /\ ~IsBlank(raster)
    /\ history # <<>>
    /\ IsBlank(history[Len(history)].px)
    /\ stored = toDataURL(raster, width, height)

(***************************************************************************)
(* Input while a decode is pending: C17 (checked under Spec).              *)
(***************************************************************************)
\* C17: while a decode started by the start-up load or by undo is pending,
\* stroke and fill input is not applied to the raster, so that the completion
\* of the decode replaces no pixel written since the decode was started.
C17_NoInputWhilePending ==
    [][(pending # <<>> /\ RenderStep) => raster' = raster]_vars

(***************************************************************************)
(* Several undo calls: C19 (checked under SpecUndo).                       *)
(***************************************************************************)
\* C19: when two or more undo calls were made before any of their decodes
\* completed, then once all the decodes have completed, in whatever order,
\* the raster and the persisted image are the snapshot the last call popped.
C19_BurstEndsAtOldest ==
    (trace.calls >= 2 /\ ~trace.mixed /\ trace.done = trace.calls) =>
       /\ raster = trace.img.px
       /\ stored = trace.img

(***************************************************************************)
(* A fill that repaints nothing: C20 (checked under SpecFill).             *)
(***************************************************************************)
\* C20: a fill whose seed pixel already has the fill colour leaves the
\* history and the undo-enabled flag as they were.
C20_NoOpFillKeepsHistory ==
    [][\A e \in Pointer :
          (fill(e[1], e[2]) /\ raster[e] = Rgba(color)) =>
             UNCHANGED <<history, undoEnabled>>]_vars

====
